---- MODULE Spec2Model ----
(***************************************************************************)
(* Model of dashboard.py, the Streamlit climate dashboard: the dataset     *)
(* loader (local copy or one-time remote fetch), the year/country filter,  *)
(* the render pass over the tabs, and the cached regression model.         *)
(*                                                                         *)
(* Encoding.  A missing cell (NaN) is NA, a missing Country is NoCountry,  *)
(* an unparsable Date is NaT.  A raw Date is the pair <<year, month>> as   *)
(* written in the CSV; the month may be out of range.  The library calls   *)
(* Ridge.fit / model.predict are kept as the record of their arguments:    *)
(* they are deterministic functions of exactly those arguments.            *)
(***************************************************************************)
EXTENDS Integers, Sequences, FiniteSets, TLC

VARIABLES
    localCsv,            \* climate_change_data.csv beside the script, or NoFile
    everFetched,         \* history: a remote fetch has succeeded on this disk
    dataCache,           \* st.cache_data entry of load_data, or NoEntry
    modelCache,          \* st.cache_resource entries of train_model
    fitted,              \* history: model.fit has completed in this process
    refit,               \* history: model.fit completed again in this process
    firstFit,            \* history: what train_model first gave in this process
    pc,                  \* position of the running script
    steps,               \* steps of the script executed in the current pass
    lastLoad,            \* where load_data took the data from in this pass
    df,                  \* the script's df
    year_range,          \* st.slider value (session state)
    selected_countries,  \* st.multiselect value (session state)
    filtered_df,         \* the script's filtered_df
    fit,                 \* the script's (model, scaler, metrics, ...) tuple
    pressed,             \* the predict button was pressed for this pass
    inputs,              \* the five st.number_input values (session state)
    prediction,          \* the prediction displayed in this pass
    raised               \* the exception that ended this pass

vars == <<localCsv, everFetched, dataCache, modelCache, fitted, refit, firstFit,
          pc, steps,
          lastLoad, df, year_range, selected_countries, filtered_df, fit,
          pressed, inputs, prediction, raised>>

-----------------------------------------------------------------------------
(* Bounds of the model                                                     *)

MaxRows == 3

\* The largest number of countries of a dataset of the ranking specification.
MaxCountries == 16

-----------------------------------------------------------------------------
(* Values                                                                  *)

NA == -1
NaT == <<>>
NoCountry == "<NA>"
NoFile == <<>>
NoEntry == <<>>
None == <<>>

numeric_cols == <<"Temperature", "CO2 Emissions", "Sea Level Rise",
                  "Precipitation", "Humidity", "Wind Speed">>

features == <<"CO2 Emissions", "Sea Level Rise", "Precipitation", "Humidity",
              "Wind Speed">>

target == "Temperature"

monthly_order == <<"Jan", "Feb", "Mar", "Apr", "May", "Jun",
                   "Jul", "Aug", "Sep", "Oct", "Nov", "Dec">>

Range(s) == {s[i] : i \in 1..Len(s)}

\* A CSV line: Date, Country and the six measurements (v in every numeric
\* cell, except the cells named in missing, which are empty).
RawRow(date, country, v, missing) ==
    [c \in {"Date", "Country"} \cup Range(numeric_cols) |->
        IF c = "Date" THEN date
        ELSE IF c = "Country" THEN country
        ELSE IF c \in missing THEN NA ELSE v]

\* The lines a dataset file is made of: two regular rows, a row whose Date
\* does not parse, a row with an empty feature cell, a row with an empty
\* Temperature cell and a row with an empty Country cell.
RowPool ==
    { RawRow(<<2000, 1>>, "A", 1, {}),
      RawRow(<<2001, 2>>, "B", 2, {}),
      RawRow(<<2001, 13>>, "A", 3, {}),
      RawRow(<<2000, 3>>, "B", 4, {"Humidity"}),
      RawRow(<<2001, 4>>, "A", 5, {"Temperature"}),
      RawRow(<<2000, 5>>, NoCountry, 6, {}) }

RawDatasets == UNION {[1..n -> RowPool] : n \in 1..MaxRows}

-----------------------------------------------------------------------------
(* load_data                                                               *)

\* pd.to_datetime(..., errors="coerce")
ToDatetime(s) == IF Len(s) = 2 /\ s[2] \in 1..12 THEN s ELSE NaT

DtYear(d) == IF d = NaT THEN NA ELSE d[1]

DtMonth(d) == IF d = NaT THEN NA ELSE d[2]

DtMonthName(d) == IF d = NaT THEN "NaN" ELSE monthly_order[d[2]]

\* pd.read_csv followed by the Date parsing; idx is the RangeIndex label.
ParseDates(raw) ==
    [i \in 1..Len(raw) |->
        LET d == ToDatetime(raw[i]["Date"]) IN
        [idx |-> i,
         Date |-> d,
         Country |-> raw[i]["Country"],
         val |-> [c \in Range(numeric_cols) |-> raw[i][c]],
         Year |-> DtYear(d),
         Month |-> DtMonth(d),
         MonthName |-> DtMonthName(d)]]

\* Mutant of SaveLocal: the copy is not written.
SaveLocalSkipped(raw) == NoFile

\* df.to_csv(local_csv, index=False): what the file holds afterwards.
SaveLocal(raw) == raw

\* Mutant of OnLoadError: the error is shown and the script goes on.
OnLoadErrorContinue == "sidebar"

\* The except clause: st.error, then st.stop().
OnLoadError == "stopped"

-----------------------------------------------------------------------------
(* Sidebar                                                                 *)

IsNA(v) == v = NA

\* A comparison with NaN on either side is False.
NanGe(a, b) == ~IsNA(a) /\ ~IsNA(b) /\ a >= b

NanLe(a, b) == ~IsNA(a) /\ ~IsNA(b) /\ a <= b

\* df["Year"].min() / .max() skip NaN; of no value at all they are NaN.
YearsOf(d) == {d[i].Year : i \in 1..Len(d)} \ {NA}

SetMin(S) == CHOOSE x \in S : \A y \in S : x <= y

SetMax(S) == CHOOSE x \in S : \A y \in S : x >= y

ColMin(S) == IF S = {} THEN NA ELSE SetMin(S)

ColMax(S) == IF S = {} THEN NA ELSE SetMax(S)

\* int(NaN) raises ValueError.
SidebarRaises(d) == IsNA(ColMin(YearsOf(d)))

min_year(d) == ColMin(YearsOf(d))

max_year(d) == ColMax(YearsOf(d))

\* The slider's value: the session's, or the default (min_year, max_year).
SliderValue(session, d) ==
    IF session = None THEN <<min_year(d), max_year(d)>> ELSE session

\* df["Country"].dropna().unique(): the options of the multiselect.
all_countries(d) == {d[i].Country : i \in 1..Len(d)} \ {NoCountry}

\* The multiselect's value: the session's selection among the options
\* (the default, [], before any selection).
MultiselectValue(session, d) == session \cap all_countries(d)

-----------------------------------------------------------------------------
(* Filters                                                                 *)

\* Mutant of YearMask: the upper bound of the range is exclusive.
YearMaskExclusive(d, yr) ==
    LET keep(r) == NanGe(r.Year, yr[1]) /\ NanLe(r.Year, yr[2]) /\ r.Year # yr[2]
    IN  SelectSeq(d, keep)

\* df[(df["Year"] >= year_range[0]) & (df["Year"] <= year_range[1])]
YearMask(d, yr) ==
    LET keep(r) == NanGe(r.Year, yr[1]) /\ NanLe(r.Year, yr[2])
    IN  SelectSeq(d, keep)

\* Mutant of CountryMask: the kept rows come out in reverse order.
CountryMaskReversed(d, sel) ==
    LET keep(r) == r.Country \in sel
        kept == SelectSeq(d, keep)
    IN  [i \in 1..Len(kept) |-> kept[Len(kept) + 1 - i]]

\* filtered_df[filtered_df["Country"].isin(selected_countries)]
CountryMask(d, sel) ==
    LET keep(r) == r.Country \in sel
    IN  SelectSeq(d, keep)

ApplyFilters(d, yr, sel) ==
    IF sel # {} THEN CountryMask(YearMask(d, yr), sel) ELSE YearMask(d, yr)

\* Mutant of DfAfterFilter: the filter is applied in place (df = df[mask]).
DfAfterFilterInPlace(d, f) == f

\* df after the filter lines: indexing with a mask builds a new frame and
\* leaves df as it was.
DfAfterFilter(d, f) == d

-----------------------------------------------------------------------------
(* Aggregations                                                            *)

Rat(n, d) == [num |-> n, den |-> d]

\* NaN as a float result: the mean of no value.
NaN == Rat(0, 0)

RECURSIVE ColSum(_, _, _)
ColSum(d, c, i) ==
    IF i = 0 THEN 0
    ELSE ColSum(d, c, i - 1) + (IF IsNA(d[i].val[c]) THEN 0 ELSE d[i].val[c])

ColCount(d, c) == Cardinality({i \in 1..Len(d) : ~IsNA(d[i].val[c])})

\* float(df[c].mean()): the mean of the cells that are present.
ColMean(d, c) == Rat(ColSum(d, c, Len(d)), ColCount(d, c))

RECURSIVE SortAsc(_)
SortAsc(S) ==
    IF S = {} THEN <<>> ELSE <<SetMin(S)>> \o SortAsc(S \ {SetMin(S)})

\* groupby("Year"): the keys sorted ascending, NaN keys dropped.
GroupKeysByYear(d) == SortAsc(YearsOf(d))

RowsOfYear(d, y) == LET in(r) == r.Year = y IN SelectSeq(d, in)

\* yearly = filtered_df.groupby("Year")[numeric_cols].mean().reset_index()
Yearly(d) ==
    LET keys == GroupKeysByYear(d) IN
    [i \in 1..Len(keys) |->
        [Year |-> keys[i],
         mean |-> [c \in Range(numeric_cols) |-> ColMean(RowsOfYear(d, keys[i]), c)]]]

RowsOfMonth(d, m) == LET in(r) == r.MonthName = m IN SelectSeq(d, in)

\* groupby("MonthName")[var].mean(): the month names that have rows.
MonthGroups(d) == {d[i].MonthName : i \in 1..Len(d)} \ {"NaN"}

\* monthly = filtered_df.groupby("MonthName")[var].mean().reindex(monthly_order)
Monthly(d, var) ==
    [i \in 1..Len(monthly_order) |->
        [MonthName |-> monthly_order[i],
         mean |-> IF monthly_order[i] \in MonthGroups(d)
                  THEN ColMean(RowsOfMonth(d, monthly_order[i]), var)
                  ELSE NaN]]

\* Arithmetic on the means (NaN propagates).
IsNaN(x) == x.den = 0

RatSub(a, b) ==
    IF IsNaN(a) \/ IsNaN(b) THEN NaN
    ELSE Rat(a.num * b.den - b.num * a.den, a.den * b.den)

RatLe(a, b) == ~IsNaN(a) /\ ~IsNaN(b) /\ a.num * b.den <= b.num * a.den

Finite(series) == {x \in Range(series) : ~IsNaN(x)}

\* Series.min() and Series.max(): NaN is skipped; NaN when nothing is left.
SeriesMin(series) ==
    IF Finite(series) = {} THEN NaN
    ELSE CHOOSE x \in Finite(series) : \A y \in Finite(series) : RatLe(x, y)

SeriesMax(series) ==
    IF Finite(series) = {} THEN NaN
    ELSE CHOOSE x \in Finite(series) : \A y \in Finite(series) : RatLe(y, x)

\* Mutant of Denominator: max - min without the 1e-9.
DenominatorNoEpsilon(lo, hi) == [range |-> RatSub(hi, lo), eps |-> 0]

\* max - min + 1e-9, kept as the pair (max - min, number of 1e-9 added): the
\* values of the model are fractions with denominators far below 1e9.
Denominator(lo, hi) == [range |-> RatSub(hi, lo), eps |-> 1]

\* (v - min) / (max - min + 1e-9), kept as numerator and denominator.
MinMax(v, lo, hi) == [num |-> RatSub(v, lo), den |-> Denominator(lo, hi)]

\* (series - series.min()) / (series.max() - series.min() + 1e-9)
NormSeries(series) ==
    [i \in 1..Len(series) |-> MinMax(series[i], SeriesMin(series), SeriesMax(series))]

\* norm, for one column of yearly (lines 446-448).
YearlyNorm(d, col) ==
    LET y == Yearly(d) IN NormSeries([i \in 1..Len(y) |-> y[i].mean[col]])

\* vals = filtered_df[col].dropna()
Vals(d, col) ==
    LET present == SelectSeq(d, LAMBDA r : ~IsNA(r.val[col])) IN
    [i \in 1..Len(present) |-> Rat(present[i].val[col], 1)]

\* norm_vals, for one column (lines 672-673).
BoxNorm(d, col) == NormSeries(Vals(d, col))

RowsOfCountry(d, country) == SelectSeq(d, LAMBDA r : r.Country = country)

\* cdata_norm, for one country of the radar (lines 609-611).
RadarNorm(d, country) ==
    [c \in Range(numeric_cols) |->
        MinMax(ColMean(RowsOfCountry(d, country), c),
               SeriesMin(Vals(d, c)), SeriesMax(Vals(d, c)))]

\* The country names in the order groupby("Country") sorts them.
CountryNames == <<"A", "B", "C", "D", "E", "F", "G", "H", "I", "J", "K", "L", "M",
                  "N", "O", "P", "Q", "R", "S", "T", "U", "V", "W", "X", "Y", "Z">>

\* country_avg = filtered_df.groupby("Country")[selected_variable].mean().reset_index()
country_avg(d, var) ==
    LET keys == SelectSeq(CountryNames, LAMBDA c : c \in all_countries(d)) IN
    [i \in 1..Len(keys) |->
        [Country |-> keys[i], Average |-> ColMean(RowsOfCountry(d, keys[i]), var)]]

RatLt(a, b) == RatLe(a, b) /\ ~RatLe(b, a)

\* Mutant of Precedes: of two equal averages the later one goes first
\* (keep="last").
PrecedesKeepLast(a, b, ascending) ==
    IF ascending THEN RatLe(a.Average, b.Average) ELSE RatLe(b.Average, a.Average)

\* Whether entry a must come before an entry b that was met earlier:
\* only when its average is strictly smaller (ascending) or larger.
Precedes(a, b, ascending) ==
    IF ascending THEN RatLt(a.Average, b.Average) ELSE RatLt(b.Average, a.Average)

\* One step of the stable sort: e goes before the first entry it precedes.
Insert(e, s, ascending) ==
    LET later == {p \in 1..Len(s) : Precedes(e, s[p], ascending)}
        p == IF later = {} THEN Len(s) + 1 ELSE SetMin(later)
    IN  SubSeq(s, 1, p - 1) \o <<e>> \o SubSeq(s, p, Len(s))

RECURSIVE StableSort(_, _, _)
StableSort(s, i, ascending) ==
    IF i = 0 THEN <<>> ELSE Insert(s[i], StableSort(s, i - 1, ascending), ascending)

\* The order nlargest / nsmallest rank by: the entries with an average
\* sorted stably, the entries with a NaN average after them.
SortValues(avg, ascending) ==
    LET dropped == SelectSeq(avg, LAMBDA e : ~IsNaN(e.Average))
        nan_index == SelectSeq(avg, LAMBDA e : IsNaN(e.Average))
    IN  StableSort(dropped, Len(dropped), ascending) \o nan_index

\* .head(n)
FirstN(s, n) == SubSeq(s, 1, IF n < Len(s) THEN n ELSE Len(s))

\* The n of nlargest(15, "Average") and nsmallest(15, "Average").
RankK == 15

\* top_n = country_avg.nlargest(15, "Average")
top_n(avg) == FirstN(SortValues(avg, FALSE), RankK)

\* bottom_n = country_avg.nsmallest(15, "Average")
bottom_n(avg) == FirstN(SortValues(avg, TRUE), RankK)

-----------------------------------------------------------------------------
(* Render steps that consume filtered_df                                   *)

\* filtered_df.groupby("Year"): the group keys, NaN keys dropped.
YearlyKeys(d) == YearsOf(d)

\* np.polyfit(yearly["Year"], ..., 1) raises TypeError on an empty vector.
PolyfitRaises(d) == YearlyKeys(d) = {}

\* The steps of the script in order, from load_data to the last expander.
Script == <<"load", "sidebar", "filter", "metrics", "tab1", "tab2", "tab3",
            "tab4", "tab5", "predict", "explorer", "done">>

After(step) ==
    LET i == CHOOSE k \in 1..Len(Script) : Script[k] = step IN Script[i + 1]

\* Whether a step that only reads filtered_df raises on it.
StepRaises(step, d) ==
    CASE step = "tab1" -> PolyfitRaises(d)
      [] OTHER -> FALSE

-----------------------------------------------------------------------------
(* train_model                                                             *)

FeatureVector(r) == [k \in 1..Len(features) |-> r.val[features[k]]]

\* data[features].dropna(): the rows with no missing feature, index kept.
DropnaFeatures(data) ==
    LET complete(r) == \A k \in 1..Len(features) : ~IsNA(r.val[features[k]])
    IN  SelectSeq(data, complete)

RowAt(data, label) == CHOOSE r \in Range(data) : r.idx = label

\* data.loc[X.index, target]
TargetOf(data, X) == [i \in 1..Len(X) |-> RowAt(data, X[i].idx).val[target]]

RECURSIVE SumOver(_, _, _)
SumOver(X, k, i) ==
    IF i = 0 THEN 0 ELSE SumOver(X, k, i - 1) + FeatureVector(X[i])[k]

RECURSIVE SumSqOver(_, _, _)
SumSqOver(X, k, i) ==
    IF i = 0 THEN 0
    ELSE SumSqOver(X, k, i - 1) + FeatureVector(X[i])[k] * FeatureVector(X[i])[k]

\* StandardScaler().fit(X): per feature, the count, sum and sum of squares
\* that mean_ and scale_ are computed from.
StandardScalerFit(X) ==
    [n |-> Len(X),
     sum |-> [k \in 1..Len(features) |-> SumOver(X, k, Len(X))],
     sumsq |-> [k \in 1..Len(features) |-> SumSqOver(X, k, Len(X))]]

\* scaler.transform: each row's values together with the statistics applied.
Transform(scaler, x) == [x |-> x, by |-> scaler]

\* np.random.RandomState(42).permutation(n), 1-based.
Permutation42(n) ==
    CASE n = 1 -> <<1>>
      [] n = 2 -> <<2, 1>>
      [] n = 3 -> <<1, 2, 3>>
      [] n = 4 -> <<2, 4, 1, 3>>
      [] n = 5 -> <<2, 5, 3, 1, 4>>
      [] n = 6 -> <<1, 2, 6, 3, 5, 4>>

\* ceil(0.2 * n)
NTest(n) == (n + 4) \div 5

\* train_test_split(..., test_size=0.2, random_state=42): positions.
TestPositions(n) == SubSeq(Permutation42(n), 1, NTest(n))

TrainPositions(n) == SubSeq(Permutation42(n), NTest(n) + 1, n)

Take(s, positions) == [i \in 1..Len(positions) |-> s[positions[i]]]

HasNaN(y) == \E i \in 1..Len(y) : IsNA(y[i])

\* The rows the scaler is fitted on.
ScalerRows(X) == X

\* The body of train_model.  fitDone: model.fit(X_train, y_train) returned.
TrainModelBody(data) ==
    LET X == DropnaFeatures(data)
        y == TargetOf(data, X)
        n == Len(X)
    IN  IF n = 0
        THEN [ok |-> FALSE, fitDone |-> FALSE,
              error |-> "ValueError: 0 samples (StandardScaler)"]
        ELSE IF n - NTest(n) = 0
        THEN [ok |-> FALSE, fitDone |-> FALSE,
              error |-> "ValueError: empty train set (train_test_split)"]
        ELSE
        LET scaler == StandardScalerFit(ScalerRows(X))
            X_scaled == [i \in 1..n |-> Transform(scaler, FeatureVector(X[i]))]
            X_train == Take(X_scaled, TrainPositions(n))
            X_test == Take(X_scaled, TestPositions(n))
            y_train == Take(y, TrainPositions(n))
            y_test == Take(y, TestPositions(n))
            train_idx == {X[TrainPositions(n)[i]].idx : i \in 1..(n - NTest(n))}
            test_idx == {X[TestPositions(n)[i]].idx : i \in 1..NTest(n)}
            model == [alpha |-> Rat(1, 1), X_train |-> X_train, y_train |-> y_train]
            y_pred == [model |-> model, X |-> X_test]
        IN  IF HasNaN(y_train)
            THEN [ok |-> FALSE, fitDone |-> FALSE,
                  train_idx |-> train_idx, test_idx |-> test_idx,
                  scaler_idx |-> {r.idx : r \in Range(ScalerRows(X))},
                  y_train |-> y_train, y_test |-> y_test,
                  error |-> "ValueError: Input y contains NaN (Ridge.fit)"]
            ELSE IF HasNaN(y_test)
            THEN [ok |-> FALSE, fitDone |-> TRUE,
                  train_idx |-> train_idx, test_idx |-> test_idx,
                  scaler_idx |-> {r.idx : r \in Range(ScalerRows(X))},
                  y_train |-> y_train, y_test |-> y_test,
                  error |-> "ValueError: Input contains NaN (mean_absolute_error)"]
            ELSE [ok |-> TRUE, fitDone |-> TRUE,
                  train_idx |-> train_idx, test_idx |-> test_idx,
                  scaler_idx |-> {r.idx : r \in Range(ScalerRows(X))},
                  model |-> model, scaler |-> scaler,
                  metrics |-> [MAE |-> [y_true |-> y_test, y_pred |-> y_pred],
                               RMSE |-> [y_true |-> y_test, y_pred |-> y_pred],
                               R2 |-> Rat(7134, 10000)],
                  X_test |-> X_test, y_test |-> y_test, y_pred |-> y_pred]

\* Mutant of TrainArg: the model is trained on the filtered subset.
TrainArgFiltered(d, f) == f

\* The argument the script passes to train_model.
TrainArg(d, f) == d

\* st.cache_resource: the entry stored under the argument's hash, if any.
CacheLookup(cache, data) == {e \in cache : e.key = data}

-----------------------------------------------------------------------------
(* Prediction inputs and the predict button                                *)

\* The five number inputs p1..p5 and the column each one is labelled with
\* and takes its default from.
WidgetColumn ==
    [in_co2 |-> "CO2 Emissions", in_sea |-> "Sea Level Rise",
     in_precip |-> "Precipitation", in_humidity |-> "Humidity",
     in_wind |-> "Wind Speed"]

\* The value= defaults of the five number inputs.
DefaultInputs(d) == [w \in DOMAIN WidgetColumn |-> ColMean(d, WidgetColumn[w])]

\* The values a user types into the five number inputs.
UserInputs ==
    { [in_co2 |-> Rat(7, 1), in_sea |-> Rat(1, 1), in_precip |-> Rat(2, 1),
       in_humidity |-> Rat(3, 1), in_wind |-> Rat(4, 1)] }

NumberInputs(session, d) == IF session = None THEN DefaultInputs(d) ELSE session

\* Mutant of InputData: the first two values change places.
InputDataSwapped(in) ==
    <<in.in_sea, in.in_co2, in.in_precip, in.in_humidity, in.in_wind>>

\* np.array([[in_co2, in_sea, in_precip, in_humidity, in_wind]])
InputData(in) ==
    <<in.in_co2, in.in_sea, in.in_precip, in.in_humidity, in.in_wind>>

\* model.predict(scaler.transform(input_data))[0]
Predict(f, in) ==
    [model |-> f.model, X |-> <<Transform(f.scaler, InputData(in))>>]

-----------------------------------------------------------------------------
(* The state machine                                                       *)

FetchFailures == {"download error", "no csv file in the archive",
                  "unreadable or empty csv"}

Init ==
    /\ localCsv \in {NoFile} \cup RawDatasets
    /\ everFetched = FALSE
    /\ dataCache = NoEntry
    /\ modelCache = {}
    /\ fitted = FALSE
    /\ refit = FALSE
    /\ firstFit = None
    /\ pc = "load"
    /\ steps = {}
    /\ lastLoad = "none"
    /\ df = None
    /\ year_range = None
    /\ selected_countries = {}
    /\ filtered_df = None
    /\ fit = None
    /\ pressed = FALSE
    /\ inputs = None
    /\ prediction = None
    /\ raised = ""

Advance == /\ steps' = steps \cup {pc}
           /\ pc' = After(pc)

Raise(e) == /\ steps' = steps \cup {pc}
            /\ pc' = "error"
            /\ raised' = e

\* load_data returns the entry st.cache_data holds.
LoadCached ==
    /\ pc = "load"
    /\ dataCache # NoEntry
    /\ df' = dataCache
    /\ lastLoad' = "cache"
    /\ Advance
    /\ UNCHANGED <<localCsv, everFetched, dataCache, modelCache, fitted, refit, firstFit,
                   year_range, selected_countries, filtered_df, fit, pressed,
                   inputs, prediction, raised>>

\* load_data reads the local copy.
LoadLocal ==
    /\ pc = "load"
    /\ dataCache = NoEntry
    /\ localCsv # NoFile
    /\ df' = ParseDates(localCsv)
    /\ dataCache' = df'
    /\ lastLoad' = "local"
    /\ Advance
    /\ UNCHANGED <<localCsv, everFetched, modelCache, fitted, refit, firstFit,
                   year_range, selected_countries, filtered_df, fit, pressed,
                   inputs, prediction, raised>>

\* load_data downloads the archive, reads its first CSV and saves a copy.
FetchOk ==
    /\ pc = "load"
    /\ dataCache = NoEntry
    /\ localCsv = NoFile
    /\ \E raw \in RawDatasets :
         /\ localCsv' = SaveLocal(raw)
         /\ df' = ParseDates(raw)
    /\ everFetched' = TRUE
    /\ dataCache' = df'
    /\ lastLoad' = "remote"
    /\ Advance
    /\ UNCHANGED <<modelCache, fitted, refit, firstFit, year_range, selected_countries,
                   filtered_df, fit, pressed, inputs, prediction, raised>>

\* The download, the search for a CSV or read_csv raises: st.error, st.stop.
FetchFail ==
    /\ pc = "load"
    /\ dataCache = NoEntry
    /\ localCsv = NoFile
    /\ \E e \in FetchFailures : raised' = e
    /\ lastLoad' = "failed"
    /\ steps' = steps \cup {pc}
    /\ pc' = OnLoadError
    /\ UNCHANGED <<localCsv, everFetched, dataCache, modelCache, fitted, refit, firstFit,
                   df, year_range, selected_countries, filtered_df, fit,
                   pressed, inputs, prediction>>

Sidebar ==
    /\ pc = "sidebar"
    /\ IF SidebarRaises(df)
       THEN /\ Raise("ValueError: cannot convert float NaN to integer")
            /\ UNCHANGED <<year_range, selected_countries>>
       ELSE /\ year_range' = SliderValue(year_range, df)
            /\ selected_countries' = MultiselectValue(selected_countries, df)
            /\ Advance
            /\ UNCHANGED raised
    /\ UNCHANGED <<localCsv, everFetched, dataCache, modelCache, fitted, refit, firstFit,
                   lastLoad, df, filtered_df, fit, pressed, inputs, prediction>>

Filter ==
    /\ pc = "filter"
    /\ filtered_df' = ApplyFilters(df, year_range, selected_countries)
    /\ df' = DfAfterFilter(df, filtered_df')
    /\ Advance
    /\ UNCHANGED <<localCsv, everFetched, dataCache, modelCache, fitted, refit, firstFit,
                   lastLoad, year_range, selected_countries, fit, pressed,
                   inputs, prediction, raised>>

\* The key metrics, the four chart tabs and the data explorer.
Render ==
    /\ pc \in {"metrics", "tab1", "tab2", "tab3", "tab4", "explorer"}
    /\ IF StepRaises(pc, filtered_df)
       THEN Raise("TypeError: expected non-empty vector for x")
       ELSE Advance /\ UNCHANGED raised
    /\ UNCHANGED <<localCsv, everFetched, dataCache, modelCache, fitted, refit, firstFit,
                   lastLoad, df, year_range, selected_countries, filtered_df,
                   fit, pressed, inputs, prediction>>

\* Tab 5 up to the number inputs: train_model through st.cache_resource.
Train ==
    /\ pc = "tab5"
    /\ LET data == TrainArg(df, filtered_df)
           hit == CacheLookup(modelCache, data)
       IN  IF hit # {}
           THEN /\ fit' = (CHOOSE e \in hit : TRUE).value
                /\ inputs' = NumberInputs(inputs, df)
                /\ Advance
                /\ UNCHANGED <<modelCache, fitted, refit, raised>>
           ELSE LET res == TrainModelBody(data) IN
                /\ fitted' = (fitted \/ res.fitDone)
                /\ refit' = (refit \/ (fitted /\ res.fitDone))
                /\ IF res.ok
                   THEN /\ modelCache' = modelCache \cup {[key |-> data, value |-> res]}
                        /\ fit' = res
                        /\ inputs' = NumberInputs(inputs, df)
                        /\ Advance
                        /\ UNCHANGED raised
                   ELSE /\ Raise(res.error)
                        /\ fit' = res
                        /\ UNCHANGED <<modelCache, inputs>>
    /\ firstFit' = IF firstFit = None THEN fit' ELSE firstFit
    /\ UNCHANGED <<localCsv, everFetched, dataCache, lastLoad, df, year_range,
                   selected_countries, filtered_df, pressed, prediction>>

\* if st.button(...): the prediction is computed only when it was pressed.
PredictButton ==
    /\ pc = "predict"
    /\ prediction' = IF pressed THEN Predict(fit, inputs) ELSE None
    /\ Advance
    /\ UNCHANGED <<localCsv, everFetched, dataCache, modelCache, fitted, refit, firstFit,
                   lastLoad, df, year_range, selected_countries, filtered_df,
                   fit, pressed, inputs, raised>>

\* A new pass of the script starts from the top.
Rerun ==
    /\ pc' = "load"
    /\ steps' = {}
    /\ lastLoad' = "none"
    /\ df' = None
    /\ filtered_df' = None
    /\ fit' = None
    /\ prediction' = None
    /\ raised' = ""

WidgetsShown == pc \in {"done", "error"} /\ "sidebar" \in steps /\ raised # "ValueError: cannot convert float NaN to integer"

ChangeYearRange ==
    /\ WidgetsShown
    /\ \E lo \in min_year(df)..max_year(df) : \E hi \in lo..max_year(df) :
         /\ <<lo, hi>> # year_range
         /\ year_range' = <<lo, hi>>
    /\ pressed' = FALSE
    /\ Rerun
    /\ UNCHANGED <<localCsv, everFetched, dataCache, modelCache, fitted, refit, firstFit,
                   selected_countries, inputs>>

ChangeCountries ==
    /\ WidgetsShown
    /\ \E sel \in SUBSET all_countries(df) :
         /\ sel # selected_countries
         /\ selected_countries' = sel
    /\ pressed' = FALSE
    /\ Rerun
    /\ UNCHANGED <<localCsv, everFetched, dataCache, modelCache, fitted, refit, firstFit,
                   year_range, inputs>>

\* The primary variable or a scatter axis is changed: a rerun, same filter.
ChangeVariable ==
    /\ WidgetsShown
    /\ pressed' = FALSE
    /\ Rerun
    /\ UNCHANGED <<localCsv, everFetched, dataCache, modelCache, fitted, refit, firstFit,
                   year_range, selected_countries, inputs>>

ChangeInputs ==
    /\ pc = "done"
    /\ \E v \in UserInputs : v # inputs /\ inputs' = v
    /\ pressed' = FALSE
    /\ Rerun
    /\ UNCHANGED <<localCsv, everFetched, dataCache, modelCache, fitted, refit, firstFit,
                   year_range, selected_countries>>

PressPredict ==
    /\ pc = "done"
    /\ pressed' = TRUE
    /\ Rerun
    /\ UNCHANGED <<localCsv, everFetched, dataCache, modelCache, fitted, refit, firstFit,
                   year_range, selected_countries, inputs>>

\* The page is opened in a new browser session of the same process: the
\* widgets are back at their defaults, the caches stay.
NewSession ==
    /\ pc \in {"done", "error", "stopped"}
    /\ year_range' = None
    /\ selected_countries' = {}
    /\ inputs' = None
    /\ pressed' = FALSE
    /\ Rerun
    /\ UNCHANGED <<localCsv, everFetched, dataCache, modelCache, fitted, refit, firstFit>>

\* The process ends and a new one starts: caches and session state are gone,
\* the local copy stays.
Restart ==
    /\ pc \in {"done", "error", "stopped"}
    /\ dataCache' = NoEntry
    /\ modelCache' = {}
    /\ fitted' = FALSE
    /\ refit' = FALSE
    /\ firstFit' = None
    /\ year_range' = None
    /\ selected_countries' = {}
    /\ inputs' = None
    /\ pressed' = FALSE
    /\ Rerun
    /\ UNCHANGED <<localCsv, everFetched>>

Next ==
    \/ LoadCached
    \/ LoadLocal
    \/ FetchOk
    \/ FetchFail
    \/ Sidebar
    \/ Filter
    \/ Render
    \/ Train
    \/ PredictButton
    \/ ChangeYearRange
    \/ ChangeCountries
    \/ ChangeVariable
    \/ ChangeInputs
    \/ PressPredict
    \/ NewSession
    \/ Restart

Spec == Init /\ [][Next]_vars

-----------------------------------------------------------------------------
(* Claims                                                                  *)

Filtered == "filter" \in steps

\* The predicate of the filter as the specification words it.
InFilterSpec(r, yr, sel) ==
    /\ ~IsNA(r.Year) /\ yr[1] <= r.Year /\ r.Year <= yr[2]
    /\ (sel = {} \/ r.Country \in sel)

\* C1: once the filter has run, a row of the loaded dataset is in the
\* filtered subset iff its Year lies in [year_min, year_max] and the country
\* selection is empty or holds its Country; the subset has no other row.
C1_FilterKeepsExactlyMatchingRows ==
    Filtered =>
      /\ \A r \in Range(df) :
           (r \in Range(filtered_df)) <=> InFilterSpec(r, year_range, selected_countries)
      /\ Range(filtered_df) \subseteq Range(df)

\* A pass whose filter keeps some rows and drops others, one for its Year
\* (missing or outside the range), with a country selected.
C1_Witness ==
    /\ Filtered
    /\ selected_countries # {}
    /\ year_range[1] = year_range[2]
    /\ filtered_df # <<>>
    /\ \E r \in Range(df) : IsNA(r.Year)
    /\ \E r \in Range(df) : ~IsNA(r.Year) /\ r.Year > year_range[2]

FullRange == year_range = <<min_year(df), max_year(df)>>

\* C2: with no country selected and the slider at the dataset's full range,
\* the filtered subset is the whole loaded dataset, rows with a missing Year
\* included.
C2_EmptySelectionFullRangeKeepsAll ==
    (Filtered /\ selected_countries = {} /\ FullRange) => filtered_df = df

IsSubsequenceOf(f, d) ==
    /\ \A i \in 1..Len(f) : f[i].idx \in 1..Len(d) /\ d[f[i].idx] = f[i]
    /\ \A i \in 1..Len(f) : \A j \in 1..Len(f) : i < j => f[i].idx < f[j].idx

\* C3: applying the same filter to the filtered subset gives the filtered
\* subset again, and its rows are in the order they have in the dataset.
C3_FilterIdempotentAndStable ==
    Filtered =>
      /\ ApplyFilters(filtered_df, year_range, selected_countries) = filtered_df
      /\ IsSubsequenceOf(filtered_df, df)

\* A pass with a country selected that keeps two rows and drops one.
C3_Witness ==
    /\ Filtered
    /\ selected_countries # {}
    /\ Len(filtered_df) >= 2
    /\ Len(filtered_df) < Len(df)

\* C4: a pass whose filter selects no row does not end in an error.
C4_EmptySubsetNeverRaises ==
    (Filtered /\ filtered_df = <<>>) => pc # "error"

\* C5: when no local copy exists and the remote fetch fails, the error is
\* shown, the run is stopped with no step after the load executed, and no
\* local copy is written.
C5_FetchFailureHaltsRun ==
    lastLoad = "failed" =>
      /\ pc = "stopped"
      /\ raised \in FetchFailures
      /\ steps = {"load"}
      /\ localCsv = NoFile
      /\ dataCache = NoEntry
      /\ df = None /\ filtered_df = None /\ fit = None /\ prediction = None

C5_Witness == lastLoad = "failed" /\ pc = "stopped" /\ localCsv = NoFile

LoadStep == pc = "load" /\ pc' # "load"

\* C6: load_data tries the remote fetch only while there is no local copy;
\* a successful fetch leaves a local copy; a local copy stays; and once a
\* fetch has succeeded no execution of load_data fetches again: it reads
\* the local copy (or returns what st.cache_data holds of it).
C6_FetchOnlyWithoutLocalCopy ==
    [][ /\ (LoadStep /\ lastLoad' \in {"remote", "failed"}) => localCsv = NoFile
        /\ (LoadStep /\ lastLoad' = "remote") => localCsv' # NoFile
        /\ localCsv # NoFile => localCsv' = localCsv
        /\ (LoadStep /\ everFetched) => lastLoad' \in {"local", "cache"}
      ]_vars

\* A later process reads the copy that an earlier fetch saved.
C6_Witness == everFetched /\ lastLoad = "local" /\ df = ParseDates(localCsv)

\* C7: within one process model.fit runs at most once.
C7_FittedAtMostOnce == ~refit

Trained == "tab5" \in steps

\* C8: every pass of a process has the same result of train_model (rows
\* used, statistics, model, metrics) as the first pass that reached tab 5,
\* whatever the filter of either pass, and a displayed prediction is the one
\* that first result gives for the inputs.
C8_ModelIndependentOfFilter ==
    /\ Trained => fit = firstFit
    /\ prediction # None => prediction = Predict(firstFit, inputs)

\* A prediction shown in a pass whose filter drops rows that the model was
\* trained on.
C8_Witness ==
    /\ Trained /\ fit.ok /\ prediction # None
    /\ selected_countries # {}
    /\ \E i \in fit.train_idx : df[i] \notin Range(filtered_df)

\* C9: the statistics of the scaler come from rows of the training
\* partition only.
C9_ScalerFitOnTrainingRowsOnly ==
    (Trained /\ fit.ok) => fit.scaler_idx \subseteq fit.train_idx

CompleteRow(r) ==
    /\ \A k \in 1..Len(features) : ~IsNA(r.val[features[k]])
    /\ ~IsNA(r.val[target])

\* C10: no row with a missing feature or a missing Temperature is in the
\* training or the evaluation partition.
C10_NoMissingValueInPartitions ==
    (Trained /\ "train_idx" \in DOMAIN fit) =>
        \A i \in fit.train_idx \cup fit.test_idx : CompleteRow(df[i])


\* sklearn.metrics.r2_score on the evaluation partition: NaN with fewer than
\* two samples, otherwise determined by the targets and the predictions.
R2Score(y_true, y_pred) ==
    IF Len(y_true) < 2 THEN Rat(0, 0) ELSE [y_true |-> y_true, y_pred |-> y_pred]

\* C11: the R2 that train_model reports is the coefficient of determination
\* of the model's predictions against the targets of the evaluation
\* partition.
C11_ReportedR2IsEvaluationR2 ==
    (Trained /\ fit.ok) => fit.metrics.R2 = R2Score(fit.y_test, fit.y_pred)


\* C12: within a process no step changes the cached dataset or a cached
\* model; the script's df is the dataset as it was loaded from the file;
\* and what a pass shows (filtered subset, model, scaler, metrics) is what
\* the loaded dataset and the widget values give, whatever the passes before
\* it did, passes that ended in an error included.
C12_PassesLeaveDatasetAndModelUnchanged ==
    [][ /\ (dataCache # NoEntry /\ dataCache' # NoEntry) => dataCache' = dataCache
        /\ \A e \in modelCache : modelCache' = {} \/ e \in modelCache'
        /\ df' # None => df' = ParseDates(localCsv')
        /\ "filter" \in steps' =>
             filtered_df' = ApplyFilters(ParseDates(localCsv'), year_range',
                                         selected_countries')
        /\ "tab5" \in steps' => fit' = TrainModelBody(ParseDates(localCsv'))
      ]_vars

\* A pass that ended in an error on a filter selecting no row, after an
\* earlier pass had cached the model: dataset and cached model are intact.
C12_Witness ==
    /\ pc = "error" /\ Filtered /\ filtered_df = <<>>
    /\ firstFit # None /\ firstFit.ok
    /\ modelCache = {[key |-> df, value |-> firstFit]}
    /\ dataCache = ParseDates(localCsv)


\* The state in which the Trends tab has just been rendered (or has raised).
Tab1Ran == "tab1" \in steps /\ "tab2" \notin steps

YearlyOrdered(y) ==
    /\ \A i, j \in 1..Len(y) : i < j => y[i].Year < y[j].Year
    /\ \A i \in 1..Len(y) :
          /\ \E k \in 1..Len(filtered_df) : filtered_df[k].Year = y[i].Year
          /\ \A c \in Range(numeric_cols) :
                y[i].mean[c] = ColMean(RowsOfYear(filtered_df, y[i].Year), c)
    /\ \A k \in 1..Len(filtered_df) :
          IsNA(filtered_df[k].Year) \/ \E i \in 1..Len(y) : y[i].Year = filtered_df[k].Year

MonthOccurs(m) == \E k \in 1..Len(filtered_df) : filtered_df[k].MonthName = m

MonthIndex(m) == CHOOSE a \in 1..Len(monthly_order) : monthly_order[a] = m

MonthlyCalendarOrder(mo) ==
    \A i \in 1..(Len(mo) - 1) : MonthIndex(mo[i].MonthName) < MonthIndex(mo[i + 1].MonthName)

\* C13 as stated: the yearly means are in ascending year order with an entry
\* only for the years that occur in the subset, and the monthly means are in
\* calendar order with an entry only for the months that occur in the subset.
C13_EntriesOnlyForOccurringValues ==
    Tab1Ran =>
        /\ YearlyOrdered(Yearly(filtered_df))
        /\ \A var \in Range(numeric_cols) :
              LET mo == Monthly(filtered_df, var) IN
              /\ MonthlyCalendarOrder(mo)
              /\ \A i \in 1..Len(mo) : MonthOccurs(mo[i].MonthName)

\* C13, what the code computes: the yearly means are in ascending year order with an entry
\* exactly for the years that occur in the subset (rows without a year
\* contribute to none); the monthly means always list the twelve months Jan to
\* Dec in calendar order, a month with no rows in the subset has the value NaN,
\* and rows without a month contribute to no entry.
C13_CodeMonthlyHasTwelveEntries ==
    Tab1Ran =>
        /\ YearlyOrdered(Yearly(filtered_df))
        /\ \A var \in Range(numeric_cols) :
              LET mo == Monthly(filtered_df, var) IN
              /\ MonthlyCalendarOrder(mo)
              /\ Len(mo) = 12
              /\ \A i \in 1..12 :
                    /\ mo[i].MonthName = monthly_order[i]
                    /\ ~MonthOccurs(monthly_order[i]) => mo[i].mean = NaN
                    /\ MonthOccurs(monthly_order[i]) =>
                          mo[i].mean = ColMean(RowsOfMonth(filtered_df, monthly_order[i]), var)

\* A pass whose subset meets a later year before an earlier one, holds a row
\* without a date, and leaves months without rows.
C13_Witness ==
    /\ Tab1Ran
    /\ Len(Yearly(filtered_df)) = 2
    /\ \E i, j \in 1..Len(filtered_df) :
          /\ i < j /\ ~IsNA(filtered_df[i].Year) /\ ~IsNA(filtered_df[j].Year)
          /\ filtered_df[i].Year > filtered_df[j].Year
    /\ \E m \in Range(monthly_order) : ~MonthOccurs(m)


\* The value num / (range + eps * 1e-9) of a normalised entry.
DivisionByZero(n) == n.den.range.num = 0 /\ n.den.eps = 0

IsZero(n) == ~DivisionByZero(n) /\ ~IsNaN(n.num) /\ n.num.num = 0

InUnitInterval(n) ==
    /\ ~DivisionByZero(n)
    /\ RatLe(Rat(0, 1), n.num)
    /\ RatLe(n.num, n.den.range)

AllEqual(series) == \A x, y \in Finite(series) : RatLe(x, y)

\* Every finite entry of a normalised series lies in [0, 1], and is 0 when
\* the finite entries of the series are all equal.
NormalisedSeriesOk(series, norm) ==
    /\ Len(norm) = Len(series)
    /\ \A i \in 1..Len(series) :
          ~IsNaN(series[i]) =>
              /\ InUnitInterval(norm[i])
              /\ AllEqual(series) => IsZero(norm[i])

StepJustRan(step) == step \in steps /\ After(step) \notin steps

\* C14: every min-max normalisation of the dashboard (yearly trend lines,
\* box-plot values, country radar) gives values in [0, 1] for finite inputs,
\* and maps a collection of equal values to zeros without a division by zero.
C14_MinMaxNormalisationInUnitInterval ==
    /\ (StepJustRan("tab1") /\ pc # "error") =>
          \A col \in Range(numeric_cols) :
              NormalisedSeriesOk([i \in 1..Len(Yearly(filtered_df)) |->
                                     Yearly(filtered_df)[i].mean[col]],
                                 YearlyNorm(filtered_df, col))
    /\ StepJustRan("tab4") =>
          \A col \in Range(numeric_cols) :
              NormalisedSeriesOk(Vals(filtered_df, col), BoxNorm(filtered_df, col))
    /\ StepJustRan("tab3") =>
          \A country \in all_countries(df) : \A c \in Range(numeric_cols) :
              LET v == ColMean(RowsOfCountry(filtered_df, country), c)
                  n == RadarNorm(filtered_df, country)[c]
              IN  ~IsNaN(v) =>
                      /\ InUnitInterval(n)
                      /\ AllEqual(Vals(filtered_df, c)) => IsZero(n)

\* A pass whose box-plot values hold a column of two equal values and a
\* column of different values, one of them normalised to a value above 0.
C14_Witness ==
    /\ StepJustRan("tab4")
    /\ \E col \in Range(numeric_cols) :
          /\ Len(Vals(filtered_df, col)) >= 2
          /\ AllEqual(Vals(filtered_df, col))
          /\ IsZero(BoxNorm(filtered_df, col)[1])
    /\ \E col \in Range(numeric_cols) :
          /\ ~AllEqual(Vals(filtered_df, col))
          /\ \E i \in 1..Len(Vals(filtered_df, col)) :
                /\ InUnitInterval(BoxNorm(filtered_df, col)[i])
                /\ ~IsZero(BoxNorm(filtered_df, col)[i])


-----------------------------------------------------------------------------
(* The country rankings on datasets of up to MaxCountries countries        *)

\* The values a measurement takes in the datasets of this specification
\* (NA: the cells of the row are empty).
Levels == {NA, 1, 2}

\* A dataset file with one row per country, of the year 2000: the countries
\* before a have the value l[1], those from a to before b the value l[2],
\* the others the value l[3].
RankRaw(n, a, b, l) ==
    [i \in 1..n |->
        RawRow(<<2000, 1>>, CountryNames[i],
               IF i < a THEN l[1] ELSE IF i < b THEN l[2] ELSE l[3], {})]

RankDatasets ==
    UNION {{RankRaw(n, a, b, l) : a \in 1..(n + 1), b \in 1..(n + 1), l \in [1..3 -> Levels]} :
           n \in 1..MaxCountries}

\* A pass that has reached the Countries tab with the widgets at their
\* defaults (the full year range, no country selected).
InitRank ==
    /\ localCsv \in RankDatasets
    /\ everFetched = FALSE
    /\ dataCache = ParseDates(localCsv)
    /\ modelCache = {}
    /\ fitted = FALSE
    /\ refit = FALSE
    /\ firstFit = None
    /\ pc = "tab3"
    /\ steps = {"load", "sidebar", "filter", "metrics", "tab1", "tab2"}
    /\ lastLoad = "local"
    /\ df = ParseDates(localCsv)
    /\ year_range = SliderValue(None, df)
    /\ selected_countries = {}
    /\ filtered_df = ApplyFilters(df, year_range, selected_countries)
    /\ fit = None
    /\ pressed = FALSE
    /\ inputs = None
    /\ prediction = None
    /\ raised = ""

RenderCountryTab == pc = "tab3" /\ Render

NextRank == RenderCountryTab

SpecRank == InitRank /\ [][NextRank]_vars


\* The position of a country in the grouped frame.
GroupPos(avg, country) == CHOOSE i \in 1..Len(avg) : avg[i].Country = country

\* Whether entry a is ranked before entry b: the better average first (the
\* larger for the top ranking, the smaller for the bottom one), entries
\* without an average last, and among equals the first in grouped order.
RankedBefore(avg, a, b, ascending) ==
    \/ ~IsNaN(a.Average) /\ IsNaN(b.Average)
    \/ IF ascending THEN RatLt(a.Average, b.Average) ELSE RatLt(b.Average, a.Average)
    \/ /\ a.Average = b.Average
       /\ GroupPos(avg, a.Country) < GroupPos(avg, b.Country)

IsRanking(avg, ranking, ascending) ==
    /\ Len(ranking) = (IF Len(avg) < 15 THEN Len(avg) ELSE 15)
    /\ Range(ranking) \subseteq Range(avg)
    /\ \A p, q \in 1..Len(ranking) :
          p < q => /\ ranking[p].Country # ranking[q].Country
                   /\ RankedBefore(avg, ranking[p], ranking[q], ascending)
    /\ \A e \in Range(avg) \ Range(ranking) : \A p \in 1..Len(ranking) :
          RankedBefore(avg, ranking[p], e, ascending)

IsGrouped(d, var, avg) ==
    /\ {avg[i].Country : i \in 1..Len(avg)} = all_countries(d)
    /\ \A i, j \in 1..Len(avg) : i < j => avg[i].Country # avg[j].Country
    /\ \A i \in 1..Len(avg) :
          avg[i].Average = ColMean(RowsOfCountry(d, avg[i].Country), var)

\* C15: the top (bottom) ranking holds the countries of the filtered subset
\* once each with their mean of the variable, in descending (ascending) order
\* of the mean, cut to the first 15 (all when there are fewer); of two
\* countries with equal means the first in grouped order is ranked first.
C15_RankingsFirstFifteenStable ==
    StepJustRan("tab3") =>
        \A var \in Range(numeric_cols) :
            LET avg == country_avg(filtered_df, var) IN
            /\ IsGrouped(filtered_df, var, avg)
            /\ IsRanking(avg, top_n(avg), FALSE)
            /\ IsRanking(avg, bottom_n(avg), TRUE)

\* A subset of more than 15 countries in which a country left out of the top
\* ranking has the same mean as one that is in it.
C15_Witness ==
    /\ StepJustRan("tab3")
    /\ LET avg == country_avg(filtered_df, "Temperature") IN
       /\ Len(avg) > 15
       /\ Len(top_n(avg)) = 15
       /\ \E e \in Range(avg) \ Range(top_n(avg)) : \E r \in Range(top_n(avg)) :
             e.Average = r.Average
       /\ \E p, q \in 1..15 : top_n(avg)[p].Average # top_n(avg)[q].Average


\* C17: a prediction exists only in a pass where the button was pressed; the
\* vector handed to the model has exactly five values, the k-th being the
\* number input of the k-th feature of the fit-time feature list, and it is
\* transformed with the scaler of the same train_model result as the model.
C17_PredictionUsesFitOrderAndOwnScaler ==
    prediction # None =>
        /\ pressed
        /\ Len(prediction.X) = 1
        /\ Len(prediction.X[1].x) = 5
        /\ features = <<"CO2 Emissions", "Sea Level Rise", "Precipitation",
                        "Humidity", "Wind Speed">>
        /\ \A k \in 1..5 : \E w \in DOMAIN WidgetColumn :
              /\ WidgetColumn[w] = features[k]
              /\ prediction.X[1].x[k] = inputs[w]
        /\ \E e \in modelCache :
              /\ e.value.ok
              /\ e.value = fit
              /\ prediction.model = e.value.model
              /\ prediction.X[1].by = e.value.scaler

\* A finished pass that shows a prediction for values the user typed.
C17_Witness ==
    /\ prediction # None
    /\ pressed
    /\ inputs \in UserInputs
    /\ pc = "done"

====
